---- MODULE Spec2Model ----
(***************************************************************************)
(* Host-side client of the ESP32 tiger detector (src/app.py): the send /   *)
(* measure cycle run by send_image_worker on a worker thread, the response *)
(* read loop, the accuracy counters and the UI thread's handlers.          *)
(*                                                                         *)
(* A text line is a sequence of tokens: words, the separator ":" and the   *)
(* blank " ".  A byte that is no valid UTF-8 is the token "\\xff".  The    *)
(* string operations of the read loop (decode, strip, startswith, split)   *)
(* are computed on these sequences.                                        *)
(*                                                                         *)
(* Time is counted in ticks of 1/TicksPerSec second.  A worker's position  *)
(* is the source line of the statement it executes next.                   *)
(***************************************************************************)
EXTENDS Integers, Sequences, FiniteSets, Bags, TLC

\* ------------------------------------------------------------ bounds
TicksPerSec == 2
MaxImages == 2
MaxBuf == 5
\* the side of the resized image: IMG_SIZE, 32 in the source
IMG_SIZE == 2

\* ------------------------------------------------- program constants
WindowSec == 3
SerialTimeoutSec == 1

Window == WindowSec * TicksPerSec
ReadTimeout == SerialTimeoutSec * TicksPerSec

Workers == {1, 2}
Ports == << <<"COM", "3">>, <<"COM", "4">> >>
None == <<"None">>

\* ------------------------------------------------------------ strings
WS == " "
InvalidByte == "\\xff"

\* bytes.decode(errors="ignore"): invalid bytes are dropped
Decode(bytes) == SelectSeq(bytes, LAMBDA t : t # InvalidByte)

RECURSIVE LStrip(_)
LStrip(s) == IF s # << >> /\ Head(s) = WS THEN LStrip(Tail(s)) ELSE s

RECURSIVE RStrip(_)
RStrip(s) ==
  IF s # << >> /\ s[Len(s)] = WS THEN RStrip(SubSeq(s, 1, Len(s) - 1)) ELSE s

\* str.strip()
Strip(s) == RStrip(LStrip(s))

\* str.startswith(prefix)
StartsWith(s, prefix) ==
  /\ Len(s) >= Len(prefix)
  /\ SubSeq(s, 1, Len(prefix)) = prefix

\* str.split(":"): the fields between the separators, parts[1] first
RECURSIVE SplitAcc(_, _, _)
SplitAcc(s, cur, acc) ==
  IF s = << >> THEN Append(acc, cur)
  ELSE IF Head(s) = ":" THEN SplitAcc(Tail(s), << >>, Append(acc, cur))
  ELSE SplitAcc(Tail(s), Append(cur, Head(s)), acc)

Split(s) == SplitAcc(s, << >>, << >>)

\* ------------------------------------------------- lines on the wire
RX_OK == <<"RX_us", ":", "120">>
INFER_OK == <<"INFER_us", ":", "45">>
TOTAL_OK == <<"TOTAL_us", ":", "200">>
RES_TIGER == <<"RESULT", ":", "TIGER", ":", "87">>
RES_NOT == <<"RESULT", ":", " ", "NOT_TIGER", ":", "60", " ">>
RX_BAD == <<"RX_us", ":", "notanumber">>
RES_SHORT == <<"RESULT", ":", "TIGER">>
BLANK == <<" ", InvalidByte>>
CHATTER == <<"boot", ":", "ok">>

\* The replies of the device to one payload: the lines it emits, in order.
Timing3 ==
  { t \in { <<a, b, c>> : a, b, c \in {RX_OK, INFER_OK, TOTAL_OK} } :
      t[1] # t[2] /\ t[1] # t[3] /\ t[2] # t[3] }

RichReplies ==
  { t \o <<r>> : t \in Timing3, r \in {RES_TIGER} }
    \cup { << >>,
           <<RX_OK, INFER_OK, TOTAL_OK, RES_NOT>>,
           <<RX_BAD, RX_OK, RES_TIGER, CHATTER>>,
           <<BLANK, RX_BAD, CHATTER, RES_SHORT>>,
           <<INFER_OK, RES_SHORT, RES_NOT, TOTAL_OK>> }

PlainReplies == { << >>, <<RES_TIGER>> }

\* ------------------------------------------------------ image files
F_TIGER == <<"/img/", "Tiger", "_01.jpg">>
F_CAT == <<"/img/", "cat", ".png">>
F_NOTES == <<"/img/", "notes", ".txt">>
Files == {F_TIGER, F_CAT, F_NOTES}
Decodable(path) == path \in {F_TIGER, F_CAT}

\* str.lower(), token by token
LowerTok(t) ==
  CASE t = "Tiger" -> "tiger"
    [] t = "TIGER" -> "tiger"
    [] OTHER -> t

Lower(s) == [i \in 1..Len(s) |-> LowerTok(s[i])]

\* "tiger" in s
Contains(s, word) == \E i \in 1..Len(s) : s[i] = word

VARIABLES
  ser,             \* the global serial handle: None or the port it is open on
  selected_image,  \* None or the path chosen in the file dialog
  total_images,
  correct_images,
  processing,
  send_btn,        \* state of the Send button: "normal" or "disabled"
  mode,            \* the radio buttons: "UART" or "WIFI"
  rxbuf,           \* lines the device has emitted and the host has not read
  pc,              \* per worker thread: the line it executes next, or "idle"
  arr,             \* send_image_worker's local arr
  elapsed,         \* read_response: time.time() - start, in ticks
  rx, infer, total, cls, conf,   \* the telemetry fields of the cycle
  result_received, \* read_response's local
  gt,              \* update_accuracy's local
  status,          \* per worker: the text it last gave to update_status
  hist,            \* the (truth, predicted) pairs recorded since the last reset
  snap,            \* per worker: the counters when its cycle began
  io,              \* per worker: what its cycle did on a transport
  seen             \* per worker: the raw lines its read loop has taken

globals ==
  <<ser, selected_image, total_images, correct_images, processing, send_btn,
    mode>>
fields == <<rx, infer, total, cls, conf>>
locals == <<pc, arr, elapsed, fields, result_received, gt, status>>
ghosts == <<hist, snap, io, seen>>
vars == <<globals, rxbuf, locals, ghosts>>

Unset == <<"---">>
Unbound == <<"unbound">>

Init ==
  /\ ser = None
  /\ selected_image = None
  /\ total_images = 0
  /\ correct_images = 0
  /\ processing = FALSE
  /\ send_btn = "normal"
  /\ mode = "UART"
  /\ rxbuf = << >>
  /\ pc = [w \in Workers |-> "idle"]
  /\ arr = [w \in Workers |-> Unbound]
  /\ elapsed = [w \in Workers |-> 0]
  /\ rx = [w \in Workers |-> Unset]
  /\ infer = [w \in Workers |-> Unset]
  /\ total = [w \in Workers |-> Unset]
  /\ cls = [w \in Workers |-> Unset]
  /\ conf = [w \in Workers |-> Unset]
  /\ result_received = [w \in Workers |-> FALSE]
  /\ gt = [w \in Workers |-> Unset]
  /\ status = [w \in Workers |-> ""]
  /\ hist = EmptyBag
  /\ snap = [w \in Workers |-> <<0, 0>>]
  /\ io = [w \in Workers |-> {}]
  /\ seen = [w \in Workers |-> << >>]

Goto(w, l) == pc' = [pc EXCEPT ![w] = l]
AllIdle == \A w \in Workers : pc[w] = "idle"
Active == {w \in Workers : pc[w] # "idle"}

\* ------------------------------------------------------------ serial
\* A loop that does not return at line 54: the last port that opens stays
RECURSIVE FirstOpen_last(_, _)
FirstOpen_last(ports, openable) ==
  IF ports = << >> THEN None
  ELSE IF FirstOpen_last(Tail(ports), openable) # None
       THEN FirstOpen_last(Tail(ports), openable)
  ELSE IF Head(ports) \in openable THEN Head(ports)
  ELSE None

\* The ports of list ports, in order, that open: the loop of lines 48-56
\* returns at the first one.
RECURSIVE FirstOpen(_, _)
FirstOpen(ports, openable) ==
  IF ports = << >> THEN None
  ELSE IF Head(ports) \in openable THEN Head(ports)
  ELSE FirstOpen(Tail(ports), openable)

\* The ports on which line 50 calls serial.Serial, in order
RECURSIVE Probes(_, _)
Probes(ports, openable) ==
  IF ports = << >> THEN << >>
  ELSE IF Head(ports) \in openable THEN <<Head(ports)>>
  ELSE <<Head(ports)>> \o Probes(Tail(ports), openable)

\* comports(): the attached ports, in the system's order
PortLists == { << >>, <<Ports[1]>>, <<Ports[2]>>, Ports }

ConnectStatus(ports, openable) ==
  IF ports = << >> THEN "No COM ports found"
  ELSE IF FirstOpen(ports, openable) = None THEN "ESP32 Not Found"
  ELSE "Connected"

\* auto_connect_serial(): its effect on the global handle; the result is
\* FirstOpen(ports, openable) # None, the status ConnectStatus(ports, openable).
\* The input of a handle just opened holds no line.
auto_connect_serial(ports, openable) ==
  /\ ser' = IF FirstOpen(ports, openable) = None THEN ser
            ELSE FirstOpen(ports, openable)
  /\ rxbuf' = IF FirstOpen(ports, openable) = None THEN rxbuf ELSE << >>

\* ---------------------------------------------------------- UI thread
\* lines 228-238
select_image(file) ==
  /\ selected_image' = file
  /\ UNCHANGED <<ser, total_images, correct_images, processing, send_btn,
               mode, rxbuf, pc, arr, elapsed, fields, result_received, gt,
               status, ghosts>>

\* the radio buttons of lines 279-280
set_mode(m) ==
  /\ mode # m
  /\ mode' = m
  /\ UNCHANGED <<ser, selected_image, total_images, correct_images,
               processing, send_btn, rxbuf, pc, arr, elapsed, fields,
               result_received, gt, status, ghosts>>

\* lines 86-91
reset_stats ==
  /\ total_images' = 0
  /\ correct_images' = 0
  /\ hist' = EmptyBag
  /\ UNCHANGED <<ser, selected_image, processing, send_btn, mode, rxbuf, pc,
               arr, elapsed, fields, result_received, gt, status, snap, io,
               seen>>

\* The thread started runs in the lowest free slot.
FreeSlot ==
  CHOOSE w \in Workers :
    pc[w] = "idle" /\ \A v \in Workers : pc[v] = "idle" => w <= v

\* lines 222-225: the Send button's command; a disabled button runs no
\* command
send_image ==
  /\ send_btn = "normal"
  /\ \E w \in Workers : pc[w] = "idle"
  /\ total_images + Cardinality(Active) < MaxImages
  /\ Goto(FreeSlot, "L99")
  /\ UNCHANGED <<globals, rxbuf, arr, elapsed, fields, result_received, gt,
               status, ghosts>>

\* line 312, the Reconnect button, and line 358, the call at startup
Reconnect(ports, openable) ==
  /\ auto_connect_serial(ports, openable)
  /\ UNCHANGED <<selected_image, total_images, correct_images, processing,
               send_btn, mode, pc, arr, elapsed, fields, result_received, gt,
               status, ghosts>>

\* ------------------------------------------------------------- image
\* line 29: the grey levels of the resized image, row by row.  The tiger
\* is a ramp of greys that starts at black, the cat is white all over.
Pixels(path) ==
  [i \in 1..(IMG_SIZE * IMG_SIZE) |->
     IF path = F_CAT THEN 255 ELSE ((i - 1) * 60) % 256]

\* lines 31-32: np.round(p / 255.0 * 128), the nearest integer (p * 128 / 255
\* is never half-way between two integers)
Round128(p) == (2 * 128 * p + 255) \div (2 * 255)

\* line 32: astype(np.int8).  A value outside the range of the type is
\* undefined in the C cast numpy uses: the builds in use keep the low 8
\* bits, a saturating conversion keeps the nearest bound.
Casts == {"wrap", "saturate"}
astype_int8(v, cast) ==
  IF v \in -128..127 THEN v
  ELSE IF cast = "wrap" THEN ((v + 128) % 256) - 128
  ELSE IF v > 127 THEN 127 ELSE -128

\* prepare_image(path): the payload of a decodable file, else None
prepare_image(path, cast) ==
  IF Decodable(path)
  THEN [i \in 1..(IMG_SIZE * IMG_SIZE) |->
          astype_int8(Round128(Pixels(path)[i]), cast)]
  ELSE None

\* ---------------------------------------------------------- accuracy
\* line 76
GroundTruth(path) ==
  IF Contains(Lower(path), "tiger") THEN <<"TIGER">> ELSE <<"NOT_TIGER">>

\* A comparison that takes every prediction for a match
Matches_always(pred, truth) == TRUE

\* line 79
Matches(pred, truth) == pred = truth

\* ------------------------------------------------------ response parser
\* line 189: the text of the raw line
LineText(raw) == Strip(Decode(raw))

HasPrefix(line, key) == StartsWith(line, <<key, ":">>)

\* A field taken from parts[0], the key, instead of parts[1]
FieldOf_key(line) == Strip(Split(line)[1])

\* lines 195, 198, 201: line.split(":")[1].strip()
FieldOf(line) == Strip(Split(line)[2])

\* lines 203-205
IsDefinitive(line) == HasPrefix(line, "RESULT") /\ Len(Split(line)) >= 3

\* lines 206, 207
ClassOf(line) == Strip(Split(line)[2])
ConfOf(line) == Strip(Split(line)[3])

\* A loop that takes every RESULT line for definitive
AfterLine_anyResult(line) ==
  IF line # << >> /\ HasPrefix(line, "RESULT") THEN "L211" ELSE "L187"

\* A loop without the break of line 214
AfterLine_noBreak(line) == "L187"

\* lines 191-214: the position after the line, the loop again or, after a
\* definitive RESULT, the call of update_accuracy
AfterLine(line) == IF line # << >> /\ IsDefinitive(line) THEN "L211" ELSE "L187"

\* lines 191-210: the fields after one line of text
Parse(w, line) ==
  /\ rx' = [rx EXCEPT ![w] =
        IF line # << >> /\ HasPrefix(line, "RX_us") THEN FieldOf(line) ELSE @]
  /\ infer' = [infer EXCEPT ![w] =
        IF line # << >> /\ ~HasPrefix(line, "RX_us") /\ HasPrefix(line, "INFER_us")
        THEN FieldOf(line) ELSE @]
  /\ total' = [total EXCEPT ![w] =
        IF line # << >> /\ ~HasPrefix(line, "RX_us") /\ ~HasPrefix(line, "INFER_us")
           /\ HasPrefix(line, "TOTAL_us")
        THEN FieldOf(line) ELSE @]
  /\ cls' = [cls EXCEPT ![w] =
        IF line # << >> /\ IsDefinitive(line) THEN ClassOf(line) ELSE @]
  /\ conf' = [conf EXCEPT ![w] =
        IF line # << >> /\ IsDefinitive(line) THEN ConfOf(line) ELSE @]
  /\ Goto(w, AfterLine(line))

\* ------------------------------------------------- send_image_worker
\* lines 99-101
worker_check_image(w) ==
  /\ pc[w] = "L99"
  /\ Goto(w, IF selected_image = None THEN "idle" ELSE "L103")
  /\ UNCHANGED <<globals, rxbuf, arr, elapsed, fields, result_received, gt,
               status, ghosts>>

\* line 103
worker_check_serial(w) ==
  /\ pc[w] = "L103"
  /\ Goto(w, IF mode = "UART" /\ ser = None THEN "L104" ELSE "L108")
  /\ UNCHANGED <<globals, rxbuf, arr, elapsed, fields, result_received, gt,
               status, ghosts>>

\* lines 104-106
worker_connect(w, ports, openable) ==
  /\ pc[w] = "L104"
  /\ auto_connect_serial(ports, openable)
  /\ status' = [status EXCEPT ![w] = ConnectStatus(ports, openable)]
  /\ Goto(w, IF FirstOpen(ports, openable) = None THEN "idle" ELSE "L108")
  /\ UNCHANGED <<selected_image, total_images, correct_images, processing,
               send_btn, mode, arr, elapsed, fields, result_received, gt,
               ghosts>>

\* line 108: the cycle begins
worker_begin(w) ==
  /\ pc[w] = "L108"
  /\ processing' = TRUE
  /\ snap' = [snap EXCEPT ![w] = <<total_images, correct_images>>]
  /\ Goto(w, "L109")
  /\ UNCHANGED <<ser, selected_image, total_images, correct_images, send_btn,
               mode, rxbuf, arr, elapsed, fields, result_received, gt,
               status, hist, io, seen>>

\* lines 109-110
worker_disable(w) ==
  /\ pc[w] = "L109"
  /\ status' = [status EXCEPT ![w] = "Processing..."]
  /\ send_btn' = "disabled"
  /\ Goto(w, "L113")
  /\ UNCHANGED <<ser, selected_image, total_images, correct_images,
               processing, mode, rxbuf, arr, elapsed, fields,
               result_received, gt, ghosts>>

\* A worker that does not test arr for None
worker_prepare_unchecked(w) ==
  /\ pc[w] = "L113"
  /\ \E cast \in Casts :
       arr' = [arr EXCEPT ![w] = prepare_image(selected_image, cast)]
  /\ Goto(w, "L120")
  /\ UNCHANGED <<globals, rxbuf, elapsed, fields, result_received, gt,
               status, ghosts>>

\* lines 113-114
worker_prepare(w) ==
  /\ pc[w] = "L113"
  /\ \E cast \in Casts :
       arr' = [arr EXCEPT ![w] = prepare_image(selected_image, cast)]
  /\ Goto(w, IF Decodable(selected_image) THEN "L120" ELSE "L115")
  /\ UNCHANGED <<globals, rxbuf, elapsed, fields, result_received, gt,
               status, ghosts>>

\* line 115
worker_load_failed(w) ==
  /\ pc[w] = "L115"
  /\ processing' = FALSE
  /\ Goto(w, "L116")
  /\ UNCHANGED <<ser, selected_image, total_images, correct_images, send_btn,
               mode, rxbuf, arr, elapsed, fields, result_received, gt,
               status, ghosts>>

\* lines 116-117: the return runs the finally block
worker_load_return(w) ==
  /\ pc[w] = "L116"
  /\ send_btn' = "normal"
  /\ Goto(w, "L138")
  /\ UNCHANGED <<ser, selected_image, total_images, correct_images,
               processing, mode, rxbuf, arr, elapsed, fields,
               result_received, gt, status, ghosts>>

\* lines 120-127
worker_reset_fields(w) ==
  /\ pc[w] = "L120"
  /\ rx' = [rx EXCEPT ![w] = Unset]
  /\ infer' = [infer EXCEPT ![w] = Unset]
  /\ total' = [total EXCEPT ![w] = Unset]
  /\ cls' = [cls EXCEPT ![w] = Unset]
  /\ conf' = [conf EXCEPT ![w] = Unset]
  /\ Goto(w, "L129")
  /\ UNCHANGED <<globals, rxbuf, arr, elapsed, result_received, gt, status,
               ghosts>>

\* lines 129-132
worker_dispatch(w) ==
  /\ pc[w] = "L129"
  /\ Goto(w, IF mode = "WIFI" THEN "L155" ELSE "L144")
  /\ UNCHANGED <<globals, rxbuf, arr, elapsed, fields, result_received, gt,
               status, ghosts>>

\* A finally block that leaves processing as it is
worker_release_skip(w) ==
  /\ pc[w] = "L138"
  /\ Goto(w, "L139")
  /\ UNCHANGED <<globals, rxbuf, arr, elapsed, fields, result_received, gt,
               status, ghosts>>

\* line 138, in the finally block
worker_release(w) ==
  /\ pc[w] = "L138"
  /\ processing' = FALSE
  /\ Goto(w, "L139")
  /\ UNCHANGED <<ser, selected_image, total_images, correct_images, send_btn,
               mode, rxbuf, arr, elapsed, fields, result_received, gt,
               status, ghosts>>

\* line 139, and the end of the thread: its frame is dropped
worker_enable(w) ==
  /\ pc[w] = "L139"
  /\ send_btn' = "normal"
  /\ arr' = [arr EXCEPT ![w] = Unbound]
  /\ result_received' = [result_received EXCEPT ![w] = FALSE]
  /\ rx' = [rx EXCEPT ![w] = Unset]
  /\ infer' = [infer EXCEPT ![w] = Unset]
  /\ total' = [total EXCEPT ![w] = Unset]
  /\ cls' = [cls EXCEPT ![w] = Unset]
  /\ conf' = [conf EXCEPT ![w] = Unset]
  /\ status' = [status EXCEPT ![w] = ""]
  /\ snap' = [snap EXCEPT ![w] = <<0, 0>>]
  /\ io' = [io EXCEPT ![w] = {}]
  /\ seen' = [seen EXCEPT ![w] = << >>]
  /\ Goto(w, "idle")
  /\ UNCHANGED <<ser, selected_image, total_images, correct_images,
               processing, mode, rxbuf, elapsed, gt, hist>>

\* --------------------------------------------------------- transports
\* The device takes a payload and emits its reply on the serial line; the
\* lines queue up behind the unread ones in the input of the open handle,
\* and are lost when no handle is open.
DeviceReplies(reply) ==
  /\ Len(rxbuf) + Len(reply) <= MaxBuf
  /\ rxbuf' = IF ser = None THEN rxbuf ELSE rxbuf \o reply

\* What the write of a payload adds to io: the cycle has sent, and it has
\* found lines unread in the serial input
Sent == {"tx"} \cup (IF rxbuf = << >> THEN {} ELSE {"stale"})

\* lines 144-146
send_uart_check(w) ==
  /\ pc[w] = "L144"
  /\ status' = [status EXCEPT ![w] = IF ser = None THEN "UART not connected" ELSE @]
  /\ Goto(w, IF ser = None THEN "L138" ELSE "L148")
  /\ UNCHANGED <<globals, rxbuf, arr, elapsed, fields, result_received, gt,
               ghosts>>

\* lines 148-150: the write succeeds
send_uart_write(w, reply) ==
  /\ pc[w] = "L148"
  /\ DeviceReplies(reply)
  /\ io' = [io EXCEPT ![w] = @ \cup Sent]
  /\ status' = [status EXCEPT ![w] = "Waiting for response..."]
  /\ Goto(w, "L181")
  /\ UNCHANGED <<globals, arr, elapsed, fields, result_received, gt, hist,
               snap, seen>>

\* line 148 raises: lines 134-136
send_uart_raises(w) ==
  /\ pc[w] = "L148"
  /\ status' = [status EXCEPT ![w] = "Error"]
  /\ Goto(w, "L138")
  /\ UNCHANGED <<globals, rxbuf, arr, elapsed, fields, result_received, gt,
               ghosts>>

\* lines 155-158; ip is the text of the entry
send_wifi_check(w, ip) ==
  /\ pc[w] = "L155"
  /\ Goto(w, IF ip = "" THEN "L138" ELSE "L161")
  /\ UNCHANGED <<globals, rxbuf, arr, elapsed, fields, result_received, gt,
               status, ghosts>>

\* lines 161-163: the socket of this request is created
send_wifi_open(w) ==
  /\ pc[w] = "L161"
  /\ Goto(w, "L164")
  /\ UNCHANGED <<globals, rxbuf, arr, elapsed, fields, result_received, gt,
               status, ghosts>>

\* lines 164-170: connect, sendall and close succeed
send_wifi_sent(w, reply) ==
  /\ pc[w] = "L164"
  /\ DeviceReplies(reply)
  /\ io' = [io EXCEPT ![w] = @ \cup Sent]
  /\ status' = [status EXCEPT ![w] = "Waiting for response..."]
  /\ Goto(w, "L181")
  /\ UNCHANGED <<globals, arr, elapsed, fields, result_received, gt, hist,
               snap, seen>>

\* lines 164-165, 171-176: connect or sendall times out or fails; the
\* socket is dropped with the frame of send_wifi
send_wifi_fails(w, msg) ==
  /\ pc[w] = "L164"
  /\ status' = [status EXCEPT ![w] = msg]
  /\ Goto(w, "L138")
  /\ UNCHANGED <<globals, rxbuf, arr, elapsed, fields, result_received, gt,
               ghosts>>

\* ------------------------------------------------------ read_response
\* lines 181-185
read_response_enter(w) ==
  /\ pc[w] = "L181"
  /\ elapsed' = [elapsed EXCEPT ![w] = 0]
  /\ result_received' = [result_received EXCEPT ![w] = FALSE]
  /\ Goto(w, IF ser = None THEN "L138" ELSE "L187")
  /\ UNCHANGED <<globals, rxbuf, arr, fields, gt, status, ghosts>>

\* A loop whose test never fails
read_loop_exit_never(w) ==
  /\ pc[w] = "L187"
  /\ FALSE
  /\ Goto(w, "L218")
  /\ UNCHANGED <<globals, rxbuf, arr, elapsed, fields, result_received, gt,
               status, ghosts>>

\* line 187: the window is over
read_loop_exit(w) ==
  /\ pc[w] = "L187"
  /\ ~(elapsed[w] < Window)
  /\ Goto(w, "L218")
  /\ UNCHANGED <<globals, rxbuf, arr, elapsed, fields, result_received, gt,
               status, ghosts>>

\* lines 187-214: readline returns the next line of the device after dt
\* ticks, and the line is parsed
read_line(w, dt) ==
  /\ pc[w] = "L187"
  /\ elapsed[w] < Window
  /\ rxbuf # << >>
  /\ rxbuf' = Tail(rxbuf)
  /\ elapsed' = [elapsed EXCEPT ![w] = @ + dt]
  /\ io' = [io EXCEPT ![w] = @ \cup {"rx"}]
  /\ seen' = [seen EXCEPT ![w] = Append(@, Head(rxbuf))]
  /\ Parse(w, LineText(Head(rxbuf)))
  /\ UNCHANGED <<globals, arr, result_received, gt, status, hist, snap>>

\* lines 187-192: readline returns nothing after the serial timeout
read_timeout(w) ==
  /\ pc[w] = "L187"
  /\ elapsed[w] < Window
  /\ elapsed' = [elapsed EXCEPT ![w] = @ + ReadTimeout]
  /\ io' = [io EXCEPT ![w] = @ \cup {"rx"}]
  /\ Parse(w, LineText(<< >>))
  /\ UNCHANGED <<globals, rxbuf, arr, result_received, gt, status, hist,
               snap, seen>>

\* lines 187-189, 215-216: readline raises after dt ticks
read_raises(w, dt) ==
  /\ pc[w] = "L187"
  /\ elapsed[w] < Window
  /\ elapsed' = [elapsed EXCEPT ![w] = @ + dt]
  /\ io' = [io EXCEPT ![w] = @ \cup {"rx"}]
  /\ UNCHANGED <<globals, rxbuf, pc, arr, fields, result_received, gt,
               status, hist, snap, seen>>

\* line 211 and lines 73-76
update_accuracy_begin(w) ==
  /\ pc[w] = "L211"
  /\ gt' = [gt EXCEPT ![w] =
        IF selected_image = None THEN @ ELSE GroundTruth(selected_image)]
  /\ hist' = IF selected_image = None THEN hist
             ELSE hist (+) SetToBag({<<GroundTruth(selected_image), cls[w]>>})
  /\ Goto(w, IF selected_image = None THEN "L212" ELSE "L77")
  /\ UNCHANGED <<globals, rxbuf, arr, elapsed, fields, result_received,
               status, snap, io, seen>>

\* A tracker that counts the image twice
update_accuracy_total_twice(w) ==
  /\ pc[w] = "L77"
  /\ total_images' = total_images + 2
  /\ Goto(w, "L79")
  /\ UNCHANGED <<ser, selected_image, correct_images, processing, send_btn,
               mode, rxbuf, arr, elapsed, fields, result_received, gt,
               status, ghosts>>

\* line 77
update_accuracy_total(w) ==
  /\ pc[w] = "L77"
  /\ total_images' = total_images + 1
  /\ Goto(w, "L79")
  /\ UNCHANGED <<ser, selected_image, correct_images, processing, send_btn,
               mode, rxbuf, arr, elapsed, fields, result_received, gt,
               status, ghosts>>

\* lines 79-83
update_accuracy_correct(w) ==
  /\ pc[w] = "L79"
  /\ correct_images' = IF Matches(cls[w], gt[w]) THEN correct_images + 1
                       ELSE correct_images
  /\ gt' = [gt EXCEPT ![w] = Unset]
  /\ Goto(w, "L212")
  /\ UNCHANGED <<ser, selected_image, total_images, processing, send_btn,
               mode, rxbuf, arr, elapsed, fields, result_received, status,
               ghosts>>

\* lines 212-214
read_complete(w) ==
  /\ pc[w] = "L212"
  /\ status' = [status EXCEPT ![w] = "Complete"]
  /\ result_received' = [result_received EXCEPT ![w] = TRUE]
  /\ Goto(w, "L218")
  /\ UNCHANGED <<globals, rxbuf, arr, elapsed, fields, gt, ghosts>>

\* lines 218-219, and the return to send_image_worker
read_report(w) ==
  /\ pc[w] = "L218"
  /\ status' = [status EXCEPT ![w] =
        IF result_received[w] THEN @ ELSE "No response from ESP32"]
  /\ elapsed' = [elapsed EXCEPT ![w] = 0]
  /\ Goto(w, "L138")
  /\ UNCHANGED <<globals, rxbuf, arr, fields, result_received, gt, ghosts>>

\* ------------------------------------------------------ specifications
\* One step of worker thread w; the device answers a payload with a reply
\* of replies, and a line takes a time of delays to arrive.
WorkerStep(w, replies, delays) ==
  \/ worker_check_image(w)
  \/ worker_check_serial(w)
  \/ \E ports \in PortLists, openable \in SUBSET {Ports[1], Ports[2]} :
       worker_connect(w, ports, openable)
  \/ worker_begin(w)
  \/ worker_disable(w)
  \/ worker_prepare(w)
  \/ worker_load_failed(w)
  \/ worker_load_return(w)
  \/ worker_reset_fields(w)
  \/ worker_dispatch(w)
  \/ send_uart_check(w)
  \/ \E reply \in replies : send_uart_write(w, reply)
  \/ send_uart_raises(w)
  \/ \E ip \in {"", "192.168.1.50"} : send_wifi_check(w, ip)
  \/ send_wifi_open(w)
  \/ \E reply \in replies : send_wifi_sent(w, reply)
  \/ \E msg \in {"Wi-Fi timeout", "Wi-Fi Error"} : send_wifi_fails(w, msg)
  \/ read_response_enter(w)
  \/ read_loop_exit(w)
  \/ \E dt \in delays : read_line(w, dt)
  \/ read_timeout(w)
  \/ \E dt \in delays : read_raises(w, dt)
  \/ update_accuracy_begin(w)
  \/ update_accuracy_total(w)
  \/ update_accuracy_correct(w)
  \/ read_complete(w)
  \/ read_report(w)
  \/ worker_release(w)
  \/ worker_enable(w)

\* One event handled by the UI thread, the click on Send apart
UIEvent ==
  \/ \E file \in Files : select_image(file)
  \/ \E m \in {"UART", "WIFI"} : set_mode(m)
  \/ reset_stats
  \/ \E ports \in PortLists, openable \in SUBSET {Ports[1], Ports[2]} :
       Reconnect(ports, openable)

\* The UI thread and a worker thread, interleaved statement by statement;
\* the user clicks Send only while no worker thread runs.
Next ==
  \/ AllIdle /\ send_image
  \/ UIEvent
  \/ \E w \in Workers : WorkerStep(w, PlainReplies, {0})

Spec == Init /\ [][Next]_vars

\* The worker threads, interleaved statement by statement; the user clicks
\* Send whenever the button takes the click, and does nothing else while a
\* worker thread runs.
NextRace ==
  \/ send_image
  \/ AllIdle /\ UIEvent
  \/ \E w \in Workers : WorkerStep(w, PlainReplies, {0})

SpecRace == Init /\ [][NextRace]_vars

\* The handlers run one at a time: the UI thread handles an event only
\* while no worker thread runs.
NextSeq ==
  \/ AllIdle /\ send_image
  \/ AllIdle /\ UIEvent
  \/ \E w \in Workers : WorkerStep(w, RichReplies, 0..(ReadTimeout - 1))

SpecSeq == Init /\ [][NextSeq]_vars

\* The handlers run one at a time against a device that stays silent, sends
\* a timing line and a RESULT line without a confidence, or sends a result;
\* readline returns at once or at its timeout.
LiveReplies == { << >>, <<RX_OK, RES_SHORT>>, <<RES_TIGER>> }

NextLive ==
  \/ AllIdle /\ send_image
  \/ AllIdle /\ UIEvent
  \/ \E w \in Workers : WorkerStep(w, LiveReplies, {0})

\* A started worker thread is scheduled, and its clock advances: a step of
\* a worker that changes the state is taken while one is possible.
Fairness == WF_vars(\E w \in Workers : WorkerStep(w, LiveReplies, {0}))

LiveSeq == Init /\ [][NextLive]_vars /\ Fairness

\* ---------------------------------------------------------- properties
\* The positions of a worker inside a cycle: from the statement after
\* processing = True to the end of the finally block
InCycle ==
  {"L109", "L113", "L115", "L116", "L120", "L129", "L144", "L148", "L155",
   "L161", "L164", "L181", "L187", "L211", "L77", "L79", "L212", "L218", "L138",
   "L139"}
AfterResult == {"L211", "L77", "L79", "L212"}
CycleEnd == {"L138", "L139"}
Running == {w \in Workers : pc[w] \in InCycle}

\* The wire format of the device, read off the raw line: its tokens other
\* than blanks are KEY : <uint>, or RESULT : <CLASS> : <confidence>
Numbers == {"120", "45", "200", "87", "60"}
Classes == {"TIGER", "NOT_TIGER"}
TimingKeys == {"RX_us", "INFER_us", "TOTAL_us"}
NonBlank(raw) == SelectSeq(raw, LAMBDA t : t # WS)
Colons(raw) == Len(SelectSeq(raw, LAMBDA t : t = ":"))
KeyOf(raw) == IF NonBlank(raw) = << >> THEN "" ELSE NonBlank(raw)[1]
WireTiming(raw, key) ==
  /\ Len(NonBlank(raw)) = 3
  /\ NonBlank(raw)[1] = key
  /\ NonBlank(raw)[2] = ":"
  /\ NonBlank(raw)[3] \in Numbers
WireResult(raw) ==
  /\ Len(NonBlank(raw)) = 5
  /\ NonBlank(raw)[1] = "RESULT"
  /\ NonBlank(raw)[2] = ":"
  /\ NonBlank(raw)[3] \in Classes
  /\ NonBlank(raw)[4] = ":"
  /\ NonBlank(raw)[5] \in Numbers
WireDefinitive(raw) ==
  /\ Len(NonBlank(raw)) >= 2
  /\ NonBlank(raw)[1] = "RESULT"
  /\ NonBlank(raw)[2] = ":"
  /\ Colons(raw) >= 2
WireMalformedTiming(raw, key) ==
  /\ Len(NonBlank(raw)) >= 2
  /\ NonBlank(raw)[1] = key
  /\ NonBlank(raw)[2] = ":"
  /\ ~WireTiming(raw, key)
WireValue(raw) == <<NonBlank(raw)[3]>>
WireConf(raw) == <<NonBlank(raw)[5]>>
Front(s) == SubSeq(s, 1, Len(s) - 1)

\* The value of the last well-formed line of key in the lines s
RECURSIVE LastValue(_, _)
LastValue(s, key) ==
  IF s = << >> THEN Unset
  ELSE IF WireTiming(s[Len(s)], key) THEN WireValue(s[Len(s)])
  ELSE LastValue(Front(s), key)

\* Well-formed timing lines in any order, then a well-formed RESULT line
WellFormedCycle(s) ==
  /\ s # << >>
  /\ WireResult(s[Len(s)])
  /\ \A i \in 1..(Len(s) - 1) : \E key \in TimingKeys : WireTiming(s[i], key)

FieldAt(w, key) ==
  CASE key = "RX_us" -> rx[w]
    [] key = "INFER_us" -> infer[w]
    [] key = "TOTAL_us" -> total[w]

\* The worker has just taken the line at the head of the serial buffer
Takes(w) ==
  /\ pc[w] = "L187"
  /\ rxbuf # << >>
  /\ rxbuf' = Tail(rxbuf)
  /\ seen'[w] = Append(seen[w], Head(rxbuf))

\* The pairs of hist whose labels match, counted with their multiplicity
RECURSIVE MatchCount(_, _)
MatchCount(b, ps) ==
  IF ps = {} THEN 0
  ELSE LET p == CHOOSE q \in ps : TRUE
       IN  (IF p[1] = p[2] THEN CopiesIn(p, b) ELSE 0)
             + MatchCount(b, ps \ {p})

\* C1: at most one send/measure cycle is in progress at any time: a click
\* on Send while a cycle runs starts no second cycle.
C1_SingleActiveRequest == Cardinality(Running) <= 1

\* C2: a worker that has set processing to true eventually ends its cycle,
\* whatever the outcome, with processing false and the Send button enabled.
C2_ReturnsToIdle ==
  \A w \in Workers :
    (pc[w] \in InCycle)
      ~> (pc[w] = "idle" /\ ~processing /\ send_btn = "normal")

C2_Witness ==
  \E w \in Workers :
    /\ pc[w] = "L138"
    /\ processing
    /\ send_btn = "disabled"
    /\ status[w] = "Wi-Fi timeout"

\* C3: on taking a RESULT line with at least two fields after the prefix
\* the read loop sets class and confidence and leaves the loop at once,
\* whatever time remains; it reports Complete, and from that line to the
\* end of the cycle no further line is taken from the serial buffer.
C3_DefinitiveResult ==
  [][\A w \in Workers :
       /\ (Takes(w) /\ WireDefinitive(Head(rxbuf)) /\ Len(NonBlank(Head(rxbuf))) = 5)
            => /\ pc'[w] = "L211"
               /\ cls'[w] = WireValue(Head(rxbuf))
               /\ conf'[w] = WireConf(Head(rxbuf))
       /\ pc[w] \in AfterResult
            => /\ pc'[w] \in AfterResult \cup {"L218"}
               /\ elapsed'[w] = elapsed[w]
       /\ (pc[w] = "L212" /\ pc'[w] = "L218")
            => result_received'[w] /\ status'[w] = "Complete"
       /\ (pc[w] \in AfterResult \cup CycleEnd \/ (pc[w] = "L218" /\ result_received[w]))
            => rxbuf' = rxbuf
    ]_vars

C3_Witness ==
  \E w \in Workers :
    /\ pc[w] = "L218"
    /\ result_received[w]
    /\ cls[w] = <<"NOT_TIGER">>
    /\ conf[w] = <<"60">>
    /\ elapsed[w] < Window
    /\ rxbuf # << >>

\* C4: when the lines taken by the read loop are well-formed RX_us, INFER_us
\* and TOTAL_us lines, in any order, followed by a well-formed RESULT line,
\* the loop has ended Complete and the five fields hold the values of the
\* corresponding lines.
C4_WellFormedLinesParsed ==
  \A w \in Workers :
    WellFormedCycle(seen[w]) =>
      /\ pc[w] \in AfterResult \cup {"L218"} \cup CycleEnd
      /\ rx[w] = LastValue(Front(seen[w]), "RX_us")
      /\ infer[w] = LastValue(Front(seen[w]), "INFER_us")
      /\ total[w] = LastValue(Front(seen[w]), "TOTAL_us")
      /\ cls[w] = WireValue(seen[w][Len(seen[w])])
      /\ conf[w] = WireConf(seen[w][Len(seen[w])])
      /\ pc[w] \in {"L218"} \cup CycleEnd
           => result_received[w] /\ status[w] = "Complete"

C4_Witness ==
  \E w \in Workers :
    /\ pc[w] = "L138"
    /\ seen[w] = <<TOTAL_OK, RX_OK, INFER_OK, RES_TIGER>>
    /\ <<rx[w], infer[w], total[w]>> = << <<"120">>, <<"45">>, <<"200">> >>
    /\ <<cls[w], conf[w]>> = << <<"TIGER">>, <<"87">> >>
    /\ status[w] = "Complete"

\* C5: the read loop always ends; when it ends without a definitive RESULT
\* the window is over, the cycle reports "No response from ESP32", and each
\* timing field holds the value of the last well-formed line of its key that
\* no later line of that key followed.
C5_Kept(w) ==
  \A i \in 1..Len(seen[w]), key \in TimingKeys :
    (/\ WireTiming(seen[w][i], key)
     /\ \A j \in (i + 1)..Len(seen[w]) : KeyOf(seen[w][j]) # key)
      => FieldAt(w, key) = WireValue(seen[w][i])

C5_NoResultExpires ==
  /\ \A w \in Workers : (pc[w] = "L187") ~> (pc[w] \in {"L211", "L218"})
  /\ [](\A w \in Workers :
          ("rx" \in io[w] /\ ~result_received[w]) =>
            /\ pc[w] \in {"L187", "L211", "L77", "L79", "L212", "L218"} \cup CycleEnd
            /\ pc[w] = "L218" => elapsed[w] >= Window
            /\ pc[w] \in CycleEnd => status[w] = "No response from ESP32"
            /\ pc[w] \in {"L218"} \cup CycleEnd => C5_Kept(w) /\ cls[w] = Unset)

C5_Witness ==
  \E w \in Workers :
    /\ pc[w] = "L138"
    /\ ~result_received[w]
    /\ status[w] = "No response from ESP32"
    /\ rx[w] = <<"120">>
    /\ RES_SHORT \in {seen[w][i] : i \in 1..Len(seen[w])}

\* C6: a timing line whose value is no number leaves the RX field as it
\* was.
C6_MalformedNotStored ==
  [][\A w \in Workers :
       (Takes(w) /\ WireMalformedTiming(Head(rxbuf), "RX_us"))
         => rx'[w] = rx[w]
    ]_vars

\* C7: in every state 0 <= correct_images <= total_images, with
\* update_accuracy on a worker thread and reset_stats on the UI thread.
C7_CorrectAtMostTotal ==
  /\ 0 <= correct_images
  /\ correct_images <= total_images

\* C8: outside update_accuracy, total_images is the number of (truth,
\* predicted) pairs recorded since the last reset and correct_images the
\* number of them whose labels are equal; after reset_stats that is zero.
C8_CountersMatchHistory ==
  (\A w \in Workers : pc[w] \notin {"L77", "L79"}) =>
    /\ total_images = BagCardinality(hist)
    /\ correct_images = MatchCount(hist, BagToSet(hist))

C8_Witness ==
  /\ AllIdle
  /\ total_images = 2
  /\ correct_images = 1

\* C9: a cycle feeds the tracker at most once; at its end total_images has
\* grown by exactly 1, with the parsed class recorded as the prediction, if
\* the cycle is Complete, and both counters are as at its start if not.
C9_FedOncePerComplete ==
  \A w \in Workers :
    /\ pc[w] \in InCycle =>
         /\ total_images \in {snap[w][1], snap[w][1] + 1}
         /\ correct_images \in {snap[w][2], snap[w][2] + 1}
    /\ pc[w] \in CycleEnd =>
         IF result_received[w]
         THEN /\ total_images = snap[w][1] + 1
              /\ \E p \in BagToSet(hist) : p[2] = cls[w]
         ELSE <<total_images, correct_images>> = snap[w]

C9_Witness ==
  \E w \in Workers :
    /\ pc[w] = "L138"
    /\ result_received[w]
    /\ snap[w] = <<1, 0>>
    /\ <<total_images, correct_images>> = <<2, 1>>

\* C10: for a file that cannot be decoded prepare_image gives None; the
\* cycle then writes to no transport, reads no response, leaves both
\* counters as they were, and reaches the last statement of the worker
\* with processing false and the Send button enabled.
C10_LoadFailure ==
  \A w \in Workers :
    /\ (pc[w] \in InCycle \ {"L109", "L113"} /\ ~Decodable(selected_image))
         => arr[w] = None
    /\ arr[w] = None =>
         /\ pc[w] \in {"L115", "L116"} \cup CycleEnd
         /\ io[w] = {}
         /\ <<total_images, correct_images>> = snap[w]
         /\ pc[w] = "L139" => ~processing /\ send_btn = "normal"

C10_Witness ==
  \E w \in Workers :
    /\ arr[w] = None
    /\ pc[w] = "L139"
    /\ ~processing
    /\ status[w] = "Processing..."

\* C11: a payload has IMG_SIZE * IMG_SIZE values, each in -128..127; a black
\* pixel gives 0 and a white pixel the largest value of all: no grey level
\* below white rounds to more than a white pixel's value.
IsPayload(a) == a # None /\ a # Unbound

C11_QuantizerRange ==
  \A w \in Workers :
    IsPayload(arr[w]) =>
      /\ Len(arr[w]) = IMG_SIZE * IMG_SIZE
      /\ \A i \in 1..Len(arr[w]) :
           /\ arr[w][i] \in -128..127
           /\ Pixels(selected_image)[i] = 0 => arr[w][i] = 0
           /\ Pixels(selected_image)[i] = 255 =>
                \A p \in 0..254 : Round128(p) <= arr[w][i]

\* C12: the response wait never lasts longer than the window: at every
\* moment of read_response, and when its loop ends, the time since its start
\* is at most Window.
C12_WindowBound == \A w \in Workers : elapsed[w] <= Window

\* C13: a cycle that has sent its payload, over either transport, ends
\* with one of the two outcomes reported: Complete or no response.
C13_SentCycleReports ==
  \A w \in Workers :
    (pc[w] \in CycleEnd /\ "tx" \in io[w]) =>
      status[w] \in {"Complete", "No response from ESP32"}

\* C14: at most one transport handle is open in every state: the serial
\* handle held in ser and the sockets of the network sends under way.
SerialOpen == IF ser = None THEN 0 ELSE 1
SocketsOpen == Cardinality({w \in Workers : pc[w] = "L164"})

C14_OneHandle == SerialOpen + SocketsOpen <= 1

\* C15: a run of auto_connect_serial, from the Reconnect button or from a
\* worker, probes the ports in the order of the list up to the first one
\* that opens and keeps that one; when the list is empty or no port opens it
\* fails, and leaves the handle as it was.
Opens(ports, openable) == {i \in 1..Len(ports) : ports[i] \in openable}
FirstIdx(ports, openable) ==
  CHOOSE i \in Opens(ports, openable) :
    \A j \in Opens(ports, openable) : i <= j

C15_FirstPortThatOpens ==
  [][\A ports \in PortLists, openable \in SUBSET {Ports[1], Ports[2]} :
       (\/ Reconnect(ports, openable)
        \/ \E w \in Workers : worker_connect(w, ports, openable))
         => IF Opens(ports, openable) = {}
            THEN /\ ser' = ser
                 /\ Probes(ports, openable) = ports
                 /\ ConnectStatus(ports, openable) # "Connected"
                 /\ \A w \in Workers : pc[w] = "L104" => pc'[w] = "idle"
            ELSE /\ ser' = ports[FirstIdx(ports, openable)]
                 /\ Probes(ports, openable)
                      = SubSeq(ports, 1, FirstIdx(ports, openable))
                 /\ ConnectStatus(ports, openable) = "Connected"
                 /\ \A w \in Workers : pc[w] = "L104" => pc'[w] = "L108"
    ]_vars

C15_Witness ==
  \E w \in Workers :
    /\ pc[w] = "L108"
    /\ status[w] = "Connected"
    /\ ser = Ports[2]

\* C16: taking a line that is blank, that starts with none of the four
\* keys, or that is a RESULT line with fewer than two fields leaves the five
\* telemetry fields and both counters as they were and the worker in the
\* read loop; the loop is left only on a definitive RESULT line or when the
\* window is over.
WireIgnorable(raw) ==
  \/ SelectSeq(NonBlank(raw), LAMBDA t : t # InvalidByte) = << >>
  \/ KeyOf(raw) \notin TimingKeys \cup {"RESULT"}
  \/ KeyOf(raw) = "RESULT" /\ Colons(raw) < 2

C16_IgnoredLines ==
  [][\A w \in Workers :
       /\ (Takes(w) /\ WireIgnorable(Head(rxbuf)))
            => /\ <<rx'[w], infer'[w], total'[w]>> = <<rx[w], infer[w], total[w]>>
               /\ <<cls'[w], conf'[w]>> = <<cls[w], conf[w]>>
               /\ <<total_images', correct_images'>>
                    = <<total_images, correct_images>>
               /\ pc'[w] = "L187"
       /\ (pc[w] = "L187" /\ pc'[w] # "L187")
            => \/ /\ pc'[w] = "L211"
                  /\ Takes(w)
                  /\ WireDefinitive(Head(rxbuf))
               \/ /\ pc'[w] = "L218"
                  /\ elapsed[w] >= Window
    ]_vars

C16_Witness ==
  \E w \in Workers :
    /\ pc[w] = "L187"
    /\ seen[w] = <<INFER_OK, RES_SHORT>>
    /\ infer[w] = <<"45">>
    /\ cls[w] = Unset

\* C17: a line that was unread in the serial input when a cycle wrote its
\* payload is not the response of that cycle.  The input is read in order,
\* so the first line taken by a cycle that found lines unread is such a
\* line: it does not complete the cycle and feeds no counter.
C17_NoStaleLine ==
  \A w \in Workers :
    ("stale" \in io[w] /\ Len(seen[w]) = 1) =>
      /\ pc[w] \notin AfterResult
      /\ ~result_received[w]
      /\ <<total_images, correct_images>> = snap[w]

\* C18: the ground truth that update_accuracy compares with the predicted
\* class is that of the image the cycle quantized and sent, also when
\* another image is selected during the cycle.
SentImage(w) ==
  CHOOSE f \in Files :
    Decodable(f) /\ \E cast \in Casts : prepare_image(f, cast) = arr[w]

C18_TruthOfSentImage ==
  \A w \in Workers :
    pc[w] \in {"L77", "L79"} => gt[w] = GroundTruth(SentImage(w))
====
